---- MODULE Spec2Model ----
(***************************************************************************)
(* A model of caddy2-zlog: the zlog middleware (zlog.go) and its chain of  *)
(* request-processing stages (handler.go).                                 *)
(*                                                                         *)
(* Each request is a process that passes sync.Once, composes the handler   *)
(* from the package-level chain c, runs the pre-delegation code of every   *)
(* stage, runs the downstream (final) handler, and unwinds through the     *)
(* post-delegation code.  The logger context, the writers wrapped around   *)
(* the response, the log output and the hash store are state.              *)
(*                                                                         *)
(* Chain, RespProxyWriter and ResponseLog are used by the sources but not  *)
(* defined in them; their definitions below follow the written             *)
(* specification and are marked as such.                                   *)
(*                                                                         *)
(* Spec serves one request over all inputs, SpecConc serves concurrent     *)
(* requests of several Middleware instances, SpecStages runs the stage     *)
(* handlers in chains a caller of the package composes, and SpecConfig is  *)
(* the loading of a Middleware: Provision, Validate, ServeHTTP.            *)
(***************************************************************************)
EXTENDS Integers, Sequences, FiniteSets, TLC

\* ------------------------------------------------------------------ bounds

\* Number of request processes that may run concurrently.
NumProcs == 2
\* Longest sequence of response operations of a downstream handler.
MaxOps == 2
\* Largest number of key=value pairs of a form body.
MaxPairs == 2

\* handler.go:198  if len(v) > 1000
Threshold == 1000

Procs == 1..NumProcs

\* ------------------------------------------------------------ data: strings

\* A form value: an identity and its length in bytes (Go's len(v)).
Vals ==
  { [id |-> "x", len |-> 50],
    [id |-> "y", len |-> Threshold],
    [id |-> "z", len |-> Threshold + 1],
    [id |-> "w", len |-> 1500] }

\* Form keys of the inputs.
Keys == {"a", "b", "md5-a"}

\* Every key a redacted form can hold, in the byte order sort.Strings gives
\* (url.Values.Encode sorts by key).
KeyOrder == <<"a", "b", "md5-a", "md5-b", "md5-md5-a">>

\* goutil.MD5(v): a 32 character digest, one per value (no collisions).
MD5(v) == [id |-> "md5(" \o v.id \o ")", len |-> 32]

\* fmt.Sprintf("md5-%s", k)
Md5Key(k) == "md5-" \o k

\* All sequences over S of length at most n.
RECURSIVE SeqsUpTo(_, _)
SeqsUpTo(S, n) ==
  IF n = 0 THEN {<<>>}
  ELSE LET shorter == SeqsUpTo(S, n - 1)
       IN shorter \cup {Append(s, x) : s \in {t \in shorter : Len(t) = n - 1}, x \in S}

\* All orders in which the elements of S can be enumerated.
RECURSIVE Perms(_)
Perms(S) ==
  IF S = {} THEN {<<>>}
  ELSE UNION {{<<x>> \o p : p \in Perms(S \ {x})} : x \in S}

\* Concatenation of a sequence of byte slices.
RECURSIVE Concat(_)
Concat(ss) == IF ss = <<>> THEN <<>> ELSE Head(ss) \o Concat(Tail(ss))

\* ------------------------------------------------------- data: the request

ReqHeaderNames == {"X-Forwarded-For", "User-Agent", "Referer", "Request-Id"}
RespHeaderNames == {"Cost", "Request-Id"}

\* A response header map without entries (Get returns "").
NoHeaders == [n \in RespHeaderNames |-> ""]

\* A well-formed xid (20 characters of base32), as xid.FromString accepts.
ValidID == "9m4e2mr0ui3e8a215n4g"

\* The Middleware instances of the configuration: log_dir, split_by, hash_dir
\* after Provision.
Instances ==
  [ m1 |-> [LogDir |-> "./zerolog", SplitBy |-> "day",  HashDir |-> "./hashdata"],
    m2 |-> [LogDir |-> "./zerolog", SplitBy |-> "hour", HashDir |-> ""],
    m3 |-> [LogDir |-> "/nolog",    SplitBy |-> "day",  HashDir |-> "/nohash"] ]

\* The directories filestore.NewFileStorePro can open.
Openable == {"./zerolog", "./hashdata"}

\* filepath.Join(filepath.Dir(os.Args[0]), name)
ExeDir(name) == "./" \o name

\* The Middleware values the host can unmarshal from a configuration: every
\* field is a string, "" when the directive is absent.
RawConfigs ==
  [ LogDir : {"", "./zerolog", "/nolog"},
    SplitBy : {"", "day", "hour", "week", "Day", "hourly"},
    HashDir : {"", "on", "/nohash"} ]

\* zlog.go:59-70: Provision fills the defaults in.
Provision(m) ==
  [ LogDir |-> IF m.LogDir = "" THEN ExeDir("zerolog") ELSE m.LogDir,
    SplitBy |-> IF m.SplitBy = "" THEN "day" ELSE m.SplitBy,
    HashDir |-> IF m.HashDir = "on" THEN ExeDir("hashdata") ELSE m.HashDir ]

\* zlog.go:73-78 with a bug: only an unset split_by is an error.
ValidateAnySet(m) == IF m.SplitBy = "" THEN "err" ELSE "nil"

\* zlog.go:73-78: Validate returns an error unless split_by is day or hour.
Validate(m) == IF m.SplitBy # "day" /\ m.SplitBy # "hour" THEN "err" ELSE "nil"

\* The values a typed-header stage can be configured with, and the values of
\* the header ("" when the header is not set).
ValTypes == {"bool", "int", "uint", "float", "str"}

CostVals ==
  { "", "1", "0", "-2", "007", "+5", "3.14", "1e2", "true", "t", "TRUE", "false",
    "yes", "abc", "9223372036854775808" }

\* Response operations of a downstream handler.
OpSetHeader(n, v) == [op |-> "SetHeader", name |-> n, val |-> v, code |-> 0, chunk |-> <<>>]
OpWriteHeader(code) == [op |-> "WriteHeader", name |-> "", val |-> "", code |-> code, chunk |-> <<>>]
OpWrite(b) == [op |-> "Write", name |-> "", val |-> "", code |-> 0, chunk |-> b]

Ops ==
  { OpSetHeader("Cost", "3.14"), OpWriteHeader(200), OpWriteHeader(500),
    OpWrite(<<1>>), OpWrite(<<2, 3>>), OpWrite(<<>>) }

\* The body of a request as httputil.DumpRequest serializes it:
\*   form       key=value pairs joined by &
\*   badform    key=value pairs followed by a pair url.ParseQuery rejects
\*              (ParseQuery returns the pairs it could parse, and an error)
\*   blankline  key=value pairs followed by "\r\n\r\n" and more text
\*   readerr    the body cannot be read (DumpRequest returns an error)
FormBody(pairs) == [kind |-> "form", pairs |-> pairs]
OtherBody(kind, pairs) == [kind |-> kind, pairs |-> pairs]

Pairs == {<<k, v>> : k \in Keys, v \in Vals}

Bodies ==
  {FormBody(ps) : ps \in SeqsUpTo(Pairs, MaxPairs)}
    \cup {OtherBody(k, ps) : k \in {"badform", "blankline"}, ps \in SeqsUpTo(Pairs, 1)}
    \cup {OtherBody("readerr", <<>>)}

MkInput(inst, remoteOK, xff, ua, ref, id, body, script, ret) ==
  [ inst |-> inst, remoteOK |-> remoteOK,
    hdr |-> [n \in ReqHeaderNames |->
               CASE n = "X-Forwarded-For" -> xff
                 [] n = "User-Agent" -> ua
                 [] n = "Referer" -> ref
                 [] n = "Request-Id" -> id],
    body |-> body, script |-> script, ret |-> ret ]

DefaultBody == FormBody(<< <<"a", [id |-> "x", len |-> 50]>>, <<"b", [id |-> "w", len |-> 1500]>> >>)
DefaultScript == <<OpSetHeader("Cost", "3.14"), OpWriteHeader(200), OpWrite(<<1>>)>>

\* The inputs of the sequential specification: each aspect of a request is
\* varied over its whole set while the others keep a default.
HeaderInputs ==
  { MkInput(i, ok, xff, ua, ref, id, DefaultBody, DefaultScript, "nil") :
      i \in DOMAIN Instances, ok \in BOOLEAN, xff \in {"", "203.0.113.5"},
      ua \in {"", "curl"}, ref \in {"", "http://ref"}, id \in {"", "bad", ValidID} }

BodyInputs ==
  { MkInput(i, TRUE, "203.0.113.5", "curl", "", "", b, DefaultScript, "nil") :
      i \in DOMAIN Instances, b \in Bodies }

ScriptInputs ==
  { MkInput("m1", TRUE, "203.0.113.5", "curl", "", "", DefaultBody, s, ret) :
      s \in SeqsUpTo(Ops, MaxOps), ret \in {"nil", "err"} }

RichInputs == HeaderInputs \cup BodyInputs \cup ScriptInputs

\* The inputs of the concurrent specification.
ConcInputs ==
  { MkInput("m1", TRUE, "203.0.113.5", "curl", "", ValidID,
            FormBody(<< <<"a", [id |-> "z", len |-> Threshold + 1]>> >>),
            <<OpSetHeader("Cost", "3.14"), OpWrite(<<1>>)>>, "nil"),
    MkInput("m2", FALSE, "", "", "", "",
            FormBody(<< <<"b", [id |-> "x", len |-> 50]>> >>),
            <<OpWriteHeader(500)>>, "err"),
    MkInput("m3", TRUE, "", "", "", "bad",
            FormBody(<< <<"a", [id |-> "w", len |-> 1500]>> >>),
            <<OpWrite(<<2, 3>>)>>, "nil") }

\* The instances whose route a request process serves: every process is a
\* connection to one of the configured sites.
Routes(r) ==
  CASE r = 1 -> {"m1"}
    [] r = 2 -> {"m2", "m3"}
    [] OTHER -> {"m2"}

ConcInputsOf(r) == {in \in ConcInputs : in.inst \in Routes(r)}

\* The inputs of the specification of the stages: the header the typed-header
\* stage reads, with and without a flushed response, and the request headers
\* the pre-delegation stages read.
StageInputs ==
  { MkInput("m1", TRUE, "", "curl", "", "", DefaultBody, s, ret) :
      s \in UNION {{ <<OpSetHeader("Cost", v), OpWriteHeader(200)>>,
                     <<OpSetHeader("Cost", v)>> } : v \in CostVals},
      ret \in {"nil", "err"} }
  \cup
  { MkInput("m1", ok, xff, "", "", id, DefaultBody, DefaultScript, "nil") :
      ok \in BOOLEAN, xff \in {"", "203.0.113.5"}, id \in {"", "bad", ValidID} }

\* --------------------------------------------------------------- the chain

Stage(kind, a1, a2) == [kind |-> kind, a1 |-> a1, a2 |-> a2]

\* NewChain(): a chain without stages and without a hash store.
NewChain == [constructors |-> <<>>, hashStore |-> "nil"]

\* Chain.Append(stage): the stage is added at the tail.
ChainAppend(ch, stage) == [ch EXCEPT !.constructors = Append(@, stage)]

\* Chain.Then(final): stage 1 wraps stage 2 wraps ... wraps final.  The composed
\* handler is the sequence of stages from the outermost to the innermost.
Then(ch) == ch.constructors

\* zlog.go:102-126 with a bug: the request-id stage is appended before the
\* header stages.
ChainStagesSwapped ==
  << Stage("NewHandler", "", ""),
     Stage("Access", "", ""),
     Stage("RemoteAddr", "server", ""),
     Stage("RequestID", "req_id", "Request-Id"),
     Stage("Header", "X-Forwarded-For", ""),
     Stage("Header", "User-Agent", ""),
     Stage("Header", "Referer", ""),
     Stage("DelResponseHeader", "Cost", ""),
     Stage("ResponseHeader", "Cost", "float"),
     Stage("DumpResponse", "response", ""),
     Stage("DumpRequest", "request", "") >>

\* zlog.go:102-126 with a bug: the response-dump stage is appended before the
\* access recorder.
ChainStagesDumpOutside ==
  << Stage("NewHandler", "", ""),
     Stage("DumpResponse", "response", ""),
     Stage("Access", "", ""),
     Stage("RemoteAddr", "server", ""),
     Stage("Header", "X-Forwarded-For", ""),
     Stage("Header", "User-Agent", ""),
     Stage("Header", "Referer", ""),
     Stage("RequestID", "req_id", "Request-Id"),
     Stage("DelResponseHeader", "Cost", ""),
     Stage("ResponseHeader", "Cost", "float"),
     Stage("DumpRequest", "request", "") >>

\* zlog.go:102-126 with a bug: the access recorder is appended last.
ChainStagesAccessLast ==
  << Stage("NewHandler", "", ""),
     Stage("RemoteAddr", "server", ""),
     Stage("Header", "X-Forwarded-For", ""),
     Stage("Header", "User-Agent", ""),
     Stage("Header", "Referer", ""),
     Stage("RequestID", "req_id", "Request-Id"),
     Stage("DelResponseHeader", "Cost", ""),
     Stage("ResponseHeader", "Cost", "float"),
     Stage("DumpResponse", "response", ""),
     Stage("DumpRequest", "request", ""),
     Stage("Access", "", "") >>

\* zlog.go:102-126: the stages in the order ServeHTTP appends them.
ChainStages ==
  << Stage("NewHandler", "", ""),
     Stage("Access", "", ""),
     Stage("RemoteAddr", "server", ""),
     Stage("Header", "X-Forwarded-For", ""),
     Stage("Header", "User-Agent", ""),
     Stage("Header", "Referer", ""),
     Stage("RequestID", "req_id", "Request-Id"),
     Stage("DelResponseHeader", "Cost", ""),
     Stage("ResponseHeader", "Cost", "float"),
     Stage("DumpResponse", "response", ""),
     Stage("DumpRequest", "request", "") >>

RECURSIVE AppendAll(_, _)
AppendAll(ch, stages) ==
  IF stages = <<>> THEN ch ELSE AppendAll(ChainAppend(ch, Head(stages)), Tail(stages))

\* zlog.go:99-126: c = NewChain(); c = c.Append(...) for every stage.
BuildChain == AppendAll(NewChain, ChainStages)

\* Chains a caller of the package can compose from the stage constructors of
\* handler.go: the chain of zlog.go, the same chain without NewHandler (no
\* logger in the request context), and a typed-header stage of every kind.
StageChains ==
  {ChainStages, Tail(ChainStages)}
    \cup {<<Stage("NewHandler", "", ""), Stage("ResponseHeader", "Cost", k)>> : k \in ValTypes}

\* The stages that run code after next.ServeHTTP returns.
HasPost(stage) == stage.kind \in {"Access", "ResponseHeader", "DumpResponse"}

\* The innermost stage outside position i that has post-delegation code, or 0:
\* where control continues when the handler at position i returns.
RECURSIVE Enclosing(_, _)
Enclosing(h, i) ==
  IF i <= 1 THEN 0
  ELSE IF HasPost(h[i - 1]) THEN i - 1 ELSE Enclosing(h, i - 1)

\* -------------------------------------------------------------- the logger

\* A field of a logger context.  "by" is not part of the program: it records
\* the request whose stage added the field (0: process initialisation).
Field(key, typ, val, by) == [key |-> key, typ |-> typ, val |-> val, by |-> by]

\* No logger in the request's context.
NoLogger == -1

\* filestore.NewFileStorePro(dir, splitBy): the store of a directory, rotated
\* by day or by hour.
FileStore(dir, splitBy) == dir \o ":" \o splitBy

\* zlog.go:83-97: the base logger writes to the file store of log_dir, or to
\* stdout when it cannot be opened, and carries the service and host fields.
BaseLogger(m) ==
  [ out |-> IF m.LogDir \in Openable THEN FileStore(m.LogDir, m.SplitBy) ELSE "stdout",
    context |-> << Field("service", "str", "caddy", 0), Field("host", "str", "hostname", 0) >> ]

\* An unset logger cell.
NilLogger == [out |-> "", context |-> <<>>]

\* handler.go:34-35, with a bug: the request context points at the shared logger.
NewHandlerShared(ls, r) == [loggers |-> ls, ctx |-> 0]

\* handler.go:34-35: l := log.With().Logger() copies the base logger with its
\* context into a logger of the request's own; the request context points at it.
NewHandler(ls, r) == [loggers |-> [ls EXCEPT ![r] = ls[0]], ctx |-> r]

\* zerolog.Ctx(ctx).UpdateContext(f): the field is appended to the context of the
\* logger the request context points at; without a logger nothing happens.
UpdateContext(ls, id, f) ==
  IF id = NoLogger THEN ls ELSE [ls EXCEPT ![id].context = Append(@, f)]

\* ------------------------------------------------------------- the writers

\* mutil.WrapWriter(w): status, bytes written.
FreshMutil == [code |-> 0, bytes |-> 0, wroteHeader |-> FALSE]

\* The host's response writer: the header map, and what was sent to the client.
FreshReal ==
  [hdr |-> NoHeaders, sent |-> FALSE, status |-> 0, clientHdr |-> NoHeaders, body |-> <<>>]

\* RespProxyWriter: the status code (200 unless WriteHeader is called), the
\* captured body, the headers as staged before the flush, the deleted names.
FreshProxy ==
  [Code |-> 200, Body |-> <<>>, SourceHeader |-> NoHeaders, del |-> {}, wroteHeader |-> FALSE]

\* NewRespProxyWriter(w): a writer that is already a proxy is reused.
NewRespProxyWriter(w, nw) ==
  IF w # <<>> /\ Head(w) = "proxy" THEN [w |-> w, nw |-> nw]
  ELSE [w |-> <<"proxy">> \o w, nw |-> FreshProxy]

\* RespProxyWriter.delHeader(name)
ProxyDelHeader(nw, name) == [nw EXCEPT !.del = @ \cup {name}]

\* The header map with the names in del removed.
WithoutHeaders(hdr, del) == [n \in RespHeaderNames |-> IF n \in del THEN "" ELSE hdr[n]]

\* The real writer sends status and headers once.
RealSend(rw, code) ==
  IF rw.sent THEN rw
  ELSE [rw EXCEPT !.sent = TRUE, !.status = code, !.clientHdr = rw.hdr]

\* The proxy sees the flush: the staged headers are copied, the status is
\* recorded once, and the deleted names leave the real writer's headers.
ProxyFlush(B, code) ==
  IF B.nw.wroteHeader THEN B
  ELSE [B EXCEPT !.nw.wroteHeader = TRUE, !.nw.Code = code,
                 !.nw.SourceHeader = B.rw.hdr,
                 !.rw.hdr = WithoutHeaders(B.rw.hdr, B.nw.del)]

\* w.WriteHeader(code) through the layers of the writer w.
RECURSIVE WriteHeaderVia(_, _, _)
WriteHeaderVia(w, B, code) ==
  IF w = <<>> THEN B
  ELSE CASE Head(w) = "proxy" -> WriteHeaderVia(Tail(w), ProxyFlush(B, code), code)
         [] Head(w) = "mutil" ->
              IF B.lw.wroteHeader THEN B
              ELSE WriteHeaderVia(Tail(w),
                     [B EXCEPT !.lw.wroteHeader = TRUE, !.lw.code = code], code)
         [] OTHER -> [B EXCEPT !.rw = RealSend(B.rw, code)]

\* RespProxyWriter.Write with a bug: an empty slice resets the buffer.
ProxyWriteReset(nw, b) == [nw EXCEPT !.Body = IF b = <<>> THEN <<>> ELSE @ \o b]

\* RespProxyWriter.Write: the bytes are appended to the buffer.
ProxyWrite(nw, b) == [nw EXCEPT !.Body = @ \o b]

\* w.Write(b) through the layers of the writer w.
RECURSIVE WriteVia(_, _, _)
WriteVia(w, B, b) ==
  IF w = <<>> THEN B
  ELSE CASE Head(w) = "proxy" ->
              WriteVia(Tail(w), [ProxyFlush(B, 200) EXCEPT !.nw = ProxyWrite(@, b)], b)
         [] Head(w) = "mutil" ->
              LET B1 == IF B.lw.wroteHeader THEN B
                        ELSE WriteHeaderVia(w, B, 200)
              IN WriteVia(Tail(w), [B1 EXCEPT !.lw.bytes = @ + Len(b)], b)
         [] OTHER ->
              LET rw1 == RealSend(B.rw, 200)
              IN [B EXCEPT !.rw = [rw1 EXCEPT !.body = @ \o b]]

\* w.Header().Set(name, val): every layer shares the real writer's header map.
SetHeaderVia(w, B, name, val) == [B EXCEPT !.rw.hdr[name] = val]

\* ------------------------------------------------------------ the redactor

\* httputil.DumpRequest(r, true): the request line and headers, a blank line,
\* the body; an error when the body cannot be read.
DumpRequest(hdr, body) ==
  [err |-> body.kind = "readerr", head |-> hdr, kind |-> body.kind, pairs |-> body.pairs]

\* len(strings.Split(req, "\r\n\r\n")): the head, the body, and one more part
\* when the body itself holds a blank line.
SplitParts(req) == IF req.kind = "blankline" THEN 3 ELSE 2

\* url.ParseQuery(parts[1]): the values of every key, in the order they appear.
ParseQuery(pairs) ==
  [k \in {pairs[i][1] : i \in DOMAIN pairs} |->
     LET at == {i \in DOMAIN pairs : pairs[i][1] = k}
         idx == SelectSeq([i \in DOMAIN pairs |-> i], LAMBDA i : i \in at)
     IN [j \in DOMAIN idx |-> pairs[idx[j]][2]]]

\* url.Values.Get(k): the first value of the key.
Get(postData, k) == postData[k][1]

\* url.Values.Set(k, v): the key holds v alone.
Set(urlVal, k, v) == (k :> v) @@ urlVal

\* url.Values.Encode(): key=value joined by &, sorted by key.
Encode(urlVal) ==
  LET ks == SelectSeq(KeyOrder, LAMBDA k : k \in DOMAIN urlVal)
  IN [i \in DOMAIN ks |-> <<ks[i], urlVal[ks[i]]>>]

\* The empty url.Values{}.
NoValues == [k \in {} |-> MD5([id |-> "", len |-> 0])]

\* handler.go:196-209: the loop over the keys of postData, in the order the map
\* yields them.  Returns urlVal and the lines written to the hash store.
RECURSIVE HashLoop(_, _, _, _, _)
HashLoop(order, postData, urlVal, lines, hashStore) ==
  IF order = <<>> THEN [urlVal |-> urlVal, lines |-> lines]
  ELSE LET k == Head(order)
           v == Get(postData, k)
       IN IF v.len > Threshold
          THEN HashLoop(Tail(order), postData, Set(urlVal, Md5Key(k), MD5(v)),
                        IF hashStore # "nil"
                        THEN Append(lines, [field |-> k, md5 |-> MD5(v), content |-> v])
                        ELSE lines,
                        hashStore)
          ELSE HashLoop(Tail(order), postData, Set(urlVal, k, v), lines, hashStore)

\* handler.go:186-212 with a bug: the error of url.ParseQuery is ignored.
hashPostRequestIgnoreErr(req, order, hashStore) ==
  IF SplitParts(req) # 2 THEN [ret |-> req, lines |-> <<>>]
  ELSE LET res == HashLoop(order, ParseQuery(req.pairs), NoValues, <<>>, hashStore)
       IN [ret |-> [req EXCEPT !.pairs = Encode(res.urlVal)], lines |-> res.lines]

\* handler.go:186-212: hashPostRequest.  order is the order in which Go iterates
\* over the map postData.
hashPostRequest(req, order, hashStore) ==
  IF SplitParts(req) # 2 THEN [ret |-> req, lines |-> <<>>]
  ELSE IF req.kind = "badform" THEN [ret |-> req, lines |-> <<>>]
  ELSE LET res == HashLoop(order, ParseQuery(req.pairs), NoValues, <<>>, hashStore)
       IN [ret |-> [req EXCEPT !.pairs = Encode(res.urlVal)], lines |-> res.lines]

\* handler.go:218-231: the message of the request field and the lines written to
\* the hash store.
DumpRequestMsg(hdr, body, order, hashStore) ==
  LET res == DumpRequest(hdr, body)
  IN IF res.err THEN [ret |-> res, lines |-> <<>>]
     ELSE IF hashStore = "nil" THEN [ret |-> res, lines |-> <<>>]
     ELSE hashPostRequest(res, order, hashStore)

\* The orders in which the keys of the body's form can be iterated.
KeyOrders(body) == Perms({body.pairs[i][1] : i \in DOMAIN body.pairs})

\* ----------------------------------------------------- the stage handlers

\* xid.FromString(r.Header.Get(headerName)) fails on anything but a
\* well-formed id; xid.New() is unique per call.
ResolveID(hdr, headerName, r) ==
  IF headerName \in ReqHeaderNames /\ hdr[headerName] = ValidID
  THEN hdr[headerName]
  ELSE "xid-" \o ToString(r)

\* handler.go:276-278 with a bug: the header is not deleted.
DelResponseHeaderSkip(w, nw, headerName) == NewRespProxyWriter(w, nw)

\* handler.go:276-278: nw := NewRespProxyWriter(w); nw.delHeader(headerName);
\* nw is handed to the next handler.
DelResponseHeaderHandler(w, nw, headerName) ==
  LET n == NewRespProxyWriter(w, nw)
  IN [w |-> n.w, nw |-> ProxyDelHeader(n.nw, headerName)]

\* ResponseLog{...}.DumpResponse(): request line, status, headers, body.
DumpResponse(nw) == [code |-> nw.Code, header |-> nw.SourceHeader, body |-> nw.Body]

\* zlog.go:104-113: the access event, written with the fields of the logger in
\* the request's context.  "by" is the request that emitted it.
AccessEvent(l, status, size, r) ==
  [ out |-> l.out, context |-> l.context, method |-> "POST", url |-> "/",
    status |-> status, size |-> size, by |-> r ]

\* The result of a strconv parse: err == nil, and the value.  A value is
\* written as zerolog encodes it: true or false, a number in decimal without
\* sign, leading zeros or exponent.
Parsed(table, v) ==
  IF v \in DOMAIN table THEN [ok |-> TRUE, val |-> table[v]] ELSE [ok |-> FALSE, val |-> ""]

\* strconv.ParseBool(v): 1, t, T, TRUE, true, True, 0, f, F, FALSE, false, False.
ParseBool(v) ==
  Parsed(("1" :> "true") @@ ("t" :> "true") @@ ("true" :> "true") @@ ("TRUE" :> "true")
         @@ ("0" :> "false") @@ ("false" :> "false"), v)

\* strconv.ParseInt(v, 10, 64): an optional sign and decimal digits, in range.
ParseInt(v) ==
  Parsed(("1" :> "1") @@ ("0" :> "0") @@ ("-2" :> "-2") @@ ("007" :> "7") @@ ("+5" :> "5"), v)

\* strconv.ParseUint(v, 10, 64): decimal digits without a sign, in range.
ParseUint(v) ==
  Parsed(("1" :> "1") @@ ("0" :> "0") @@ ("007" :> "7")
         @@ ("9223372036854775808" :> "9223372036854775808"), v)

\* strconv.ParseFloat(v, 64): decimal or exponent notation.
ParseFloat(v) ==
  Parsed(("1" :> "1") @@ ("0" :> "0") @@ ("-2" :> "-2") @@ ("007" :> "7") @@ ("+5" :> "5")
         @@ ("3.14" :> "3.14") @@ ("1e2" :> "100")
         @@ ("9223372036854775808" :> "9223372036854775808"), v)

\* handler.go:290-313 with a bug: the int case parses with ParseUint.
TypedFieldIntAsUint(headerName, valType, v, r) ==
  CASE valType = "bool" /\ ParseBool(v).ok -> Field(headerName, "bool", ParseBool(v).val, r)
    [] valType = "float" /\ ParseFloat(v).ok -> Field(headerName, "float", ParseFloat(v).val, r)
    [] valType = "int" /\ ParseUint(v).ok -> Field(headerName, "int", ParseUint(v).val, r)
    [] valType = "uint" /\ ParseUint(v).ok -> Field(headerName, "uint", ParseUint(v).val, r)
    [] OTHER -> Field(headerName, "str", v, r)

\* handler.go:290-313: the field the typed-header stage adds for the value v:
\* the switch on valType, and c.Str when no case returned.
TypedField(headerName, valType, v, r) ==
  CASE valType = "bool" /\ ParseBool(v).ok -> Field(headerName, "bool", ParseBool(v).val, r)
    [] valType = "float" /\ ParseFloat(v).ok -> Field(headerName, "float", ParseFloat(v).val, r)
    [] valType = "int" /\ ParseInt(v).ok -> Field(headerName, "int", ParseInt(v).val, r)
    [] valType = "uint" /\ ParseUint(v).ok -> Field(headerName, "uint", ParseUint(v).val, r)
    [] OTHER -> Field(headerName, "str", v, r)

\* handler.go:141 with a bug: the error of the next handler is dropped.
AccessReturnNil(err) == "nil"

\* handler.go:141: return err
AccessReturn(err) == err

\* handler.go:268: return err
DumpResponseReturn(err) == err

\* handler.go:315: return err
ResponseHeaderReturn(err) == err

\* ------------------------------------------------------------------- state

VARIABLES
  pc,         \* where each request process is
  idx,        \* the position, in the composed handler, of the stage it runs
  input,      \* the request it serves and the Middleware instance serving it
  handler,    \* the handler c.Then(next) composed for it
  onceDone,   \* sync.Once: done
  onceM,      \* sync.Once: the holder of the mutex, 0 when free
  initCount,  \* how many times the function given to once.Do has built the chain
  c,          \* the package-level chain
  loggers,    \* logger values: 0 is the base logger, r the logger of request r
  ctxLogger,  \* the logger the request's context points at
  reqHdr,     \* r.Header
  w,          \* the writer the current stage hands to the next one (layers)
  nw,         \* the RespProxyWriter of the request
  lw,         \* the mutil writer of the request
  rw,         \* the host's response writer of the request
  rest,       \* what the downstream handler has still to do
  result,     \* the error the chain returned to the host
  logOut,     \* the log lines written
  hashLines,  \* the lines written to the hash store
  trace,      \* the stage code that has run for the request, in order
  writes,     \* the slices the downstream handler has written, in order
  initBy,     \* the Middleware instance whose ServeHTTP first ran the function of once.Do
  cfg         \* a Middleware being loaded by the host: its fields and how far it is

vars ==
  << pc, idx, input, handler, onceDone, onceM, initCount, c, loggers, ctxLogger,
     reqHdr, w, nw, lw, rw, rest, result, logOut, hashLines, trace, writes,
     initBy, cfg >>

initVars == <<onceDone, onceM, initCount, initBy, c>>
logVars == <<loggers, ctxLogger, logOut, hashLines>>
respVars == <<w, nw, lw, rw, writes>>
reqVars == <<input, reqHdr, rest, result>>

NoInput == MkInput("m1", FALSE, "", "", "", "", FormBody(<<>>), <<>>, "nil")

\* The state before any request: the package variables once and c are zero
\* values; the processes in active will each serve one request.
InitReq(active) ==
  /\ pc = [r \in Procs |-> IF r \in active THEN "idle" ELSE "off"]
  /\ idx = [r \in Procs |-> 0]
  /\ input = [r \in Procs |-> NoInput]
  /\ handler = [r \in Procs |-> <<>>]
  /\ onceDone = FALSE
  /\ onceM = 0
  /\ initCount = 0
  /\ initBy = ""
  /\ ctxLogger = [r \in Procs |-> NoLogger]
  /\ reqHdr = [r \in Procs |-> NoInput.hdr]
  /\ w = [r \in Procs |-> <<"real">>]
  /\ nw = [r \in Procs |-> FreshProxy]
  /\ lw = [r \in Procs |-> FreshMutil]
  /\ rw = [r \in Procs |-> FreshReal]
  /\ rest = [r \in Procs |-> <<>>]
  /\ result = [r \in Procs |-> "none"]
  /\ logOut = <<>>
  /\ hashLines = <<>>
  /\ trace = [r \in Procs |-> <<>>]
  /\ writes = [r \in Procs |-> <<>>]

\* No Middleware is being loaded.
NoCfg == [phase |-> "off", raw |-> Provision(CHOOSE m \in RawConfigs : TRUE),
          m |-> Provision(CHOOSE m \in RawConfigs : TRUE)]

InitWith(active) ==
  /\ InitReq(active)
  /\ c = NewChain
  /\ loggers = [i \in 0..NumProcs |-> NilLogger]
  /\ cfg = NoCfg

\* The Middleware instance serving request r.
M(r) == Instances[input[r].inst]

\* The writers of request r as one value, and back.
Bundle(r) == [nw |-> nw[r], lw |-> lw[r], rw |-> rw[r]]

SetBundle(r, B) ==
  /\ nw' = [nw EXCEPT ![r] = B.nw]
  /\ lw' = [lw EXCEPT ![r] = B.lw]
  /\ rw' = [rw EXCEPT ![r] = B.rw]

\* ------------------------------------------------- a request arrives; once

\* The host calls Middleware.ServeHTTP(w, r, next) for a request.
Start(r, inputs) ==
  /\ pc[r] = "idle"
  /\ \E in \in inputs :
       /\ input' = [input EXCEPT ![r] = in]
       /\ reqHdr' = [reqHdr EXCEPT ![r] = in.hdr]
       /\ rest' = [rest EXCEPT ![r] = in.script]
  /\ pc' = [pc EXCEPT ![r] = "once_check"]
  /\ UNCHANGED <<cfg, idx, handler, initVars, logVars, respVars, result, trace>>

\* once.Do: the fast path when done is set.
OnceCheck(r) ==
  /\ pc[r] = "once_check"
  /\ pc' = [pc EXCEPT ![r] = IF onceDone THEN "dispatch" ELSE "once_lock"]
  /\ UNCHANGED <<cfg, idx, handler, initVars, logVars, respVars, reqVars, trace>>

\* A mutex that does not exclude.
MutexNeverHeld(holder) == TRUE

\* sync.Once's mutex can be locked when nobody holds it.
MutexFree(holder) == holder = 0

\* once.Do, slow path, with a bug: done is not looked at again under the lock.
OnceLockNoRecheck(r) ==
  /\ pc[r] = "once_lock"
  /\ MutexFree(onceM)
  /\ onceM' = r
  /\ pc' = [pc EXCEPT ![r] = "init_logger"]
  /\ UNCHANGED <<cfg, idx, handler, onceDone, initCount, initBy, c, logVars, respVars, reqVars, trace>>

\* once.Do, slow path: lock, and look at done again.
OnceLock(r) ==
  /\ pc[r] = "once_lock"
  /\ MutexFree(onceM)
  /\ onceM' = r
  /\ pc' = [pc EXCEPT ![r] = IF onceDone THEN "once_unlock" ELSE "init_logger"]
  /\ UNCHANGED <<cfg, idx, handler, onceDone, initCount, initBy, c, logVars, respVars, reqVars, trace>>

\* zlog.go:83-97: the base logger.
InitLogger(r) ==
  /\ pc[r] = "init_logger"
  /\ loggers' = [loggers EXCEPT ![0] = BaseLogger(M(r))]
  /\ initBy' = IF initBy = "" THEN input[r].inst ELSE initBy
  /\ pc' = [pc EXCEPT ![r] = "init_chain"]
  /\ UNCHANGED <<cfg, idx, handler, onceDone, onceM, initCount, c, ctxLogger, logOut, hashLines, respVars, reqVars, trace>>

\* zlog.go:99-126: the chain.
InitChain(r) ==
  /\ pc[r] = "init_chain"
  /\ c' = BuildChain
  /\ initCount' = initCount + 1
  /\ pc' = [pc EXCEPT ![r] = "init_sink"]
  /\ UNCHANGED <<cfg, idx, handler, onceDone, onceM, initBy, logVars, respVars, reqVars, trace>>

\* zlog.go:129-136 with a bug: c.hashStore is not set to nil when the store
\* cannot be opened.
OpenHashStoreKeepFailed(ch, m) ==
  IF m.HashDir # ""
  THEN [ch EXCEPT !.hashStore = FileStore(m.HashDir, m.SplitBy)]
  ELSE ch

\* zlog.go:129-136: the hash store is opened when hash_dir is set, and stays
\* nil when it cannot be opened.
OpenHashStore(ch, m) ==
  IF m.HashDir # ""
  THEN [ch EXCEPT !.hashStore = IF m.HashDir \in Openable
                                 THEN FileStore(m.HashDir, m.SplitBy) ELSE "nil"]
  ELSE ch

InitSink(r) ==
  /\ pc[r] = "init_sink"
  /\ c' = OpenHashStore(c, M(r))
  /\ pc' = [pc EXCEPT ![r] = "init_done"]
  /\ UNCHANGED <<cfg, idx, handler, onceDone, onceM, initCount, initBy, logVars, respVars, reqVars, trace>>

\* once.Do: done is stored when the function has returned.
InitDone(r) ==
  /\ pc[r] = "init_done"
  /\ onceDone' = TRUE
  /\ pc' = [pc EXCEPT ![r] = "once_unlock"]
  /\ UNCHANGED <<cfg, idx, handler, onceM, initCount, initBy, c, logVars, respVars, reqVars, trace>>

\* once.Do: the mutex is unlocked.
OnceUnlock(r) ==
  /\ pc[r] = "once_unlock"
  /\ onceM' = 0
  /\ pc' = [pc EXCEPT ![r] = "dispatch"]
  /\ UNCHANGED <<cfg, idx, handler, onceDone, initCount, initBy, c, logVars, respVars, reqVars, trace>>

\* An entry of the trace: the pre- or post-delegation code of a stage, or the
\* final handler.
Ev(ph, stage) == [ph |-> ph, stage |-> stage]

FinalStage == Stage("final", "", "")

\* zlog.go:139: c.Then(next).ServeHTTP(w, r).
Dispatch(r) ==
  /\ pc[r] = "dispatch"
  /\ handler' = [handler EXCEPT ![r] = Then(c)]
  /\ idx' = [idx EXCEPT ![r] = 1]
  /\ pc' = [pc EXCEPT ![r] = IF Then(c) = <<>> THEN "final" ELSE "pre"]
  /\ trace' = [trace EXCEPT ![r] = IF Then(c) = <<>> THEN <<Ev("final", FinalStage)>> ELSE <<>>]
  /\ UNCHANGED <<cfg, initVars, logVars, respVars, reqVars>>

\* ------------------------------------------------------------- the stages

\* Request r is about to run the pre-delegation code of a stage of this kind.
AtPre(r, kind) == pc[r] = "pre" /\ handler[r][idx[r]].kind = kind

\* Request r is about to run the post-delegation code of a stage of this kind.
AtPost(r, kind) == pc[r] = "post" /\ handler[r][idx[r]].kind = kind

Cur(r) == handler[r][idx[r]]

\* next.ServeHTTP(w, r): the next stage, or the final handler after the last.
CallNext(r) ==
  /\ idx' = [idx EXCEPT ![r] = @ + 1]
  /\ pc' = [pc EXCEPT ![r] = IF idx[r] < Len(handler[r]) THEN "pre" ELSE "final"]
  /\ trace' = [trace EXCEPT ![r] =
                 IF idx[r] < Len(handler[r]) THEN Append(@, Ev("pre", Cur(r)))
                 ELSE @ \o <<Ev("pre", Cur(r)), Ev("final", FinalStage)>>]

\* The handler at position i returns: control continues after the call of
\* next.ServeHTTP in the innermost enclosing stage that has code there, or in
\* the host.
ReturnFrom(r, i, ev) ==
  LET j == Enclosing(handler[r], i)
  IN /\ idx' = [idx EXCEPT ![r] = j]
     /\ pc' = [pc EXCEPT ![r] = IF j = 0 THEN "returned" ELSE "post"]
     /\ trace' = [trace EXCEPT ![r] = @ \o ev]

\* handler.go:29-39
NewHandlerPre(r) ==
  /\ AtPre(r, "NewHandler")
  /\ LET n == NewHandler(loggers, r)
     IN /\ loggers' = n.loggers
        /\ ctxLogger' = [ctxLogger EXCEPT ![r] = n.ctx]
  /\ CallNext(r)
  /\ UNCHANGED <<cfg, handler, initVars, logOut, hashLines, respVars, reqVars>>

\* handler.go:137-139
AccessPre(r) ==
  /\ AtPre(r, "Access")
  /\ w' = [w EXCEPT ![r] = <<"mutil">> \o @]
  /\ lw' = [lw EXCEPT ![r] = FreshMutil]
  /\ CallNext(r)
  /\ UNCHANGED <<cfg, handler, initVars, logVars, nw, rw, writes, reqVars>>

\* handler.go:85-97 with a bug: the stage returns without calling the next
\* handler when the remote address does not parse.
RemoteAddrPreNoNext(r) ==
  /\ AtPre(r, "RemoteAddr")
  /\ IF input[r].remoteOK
     THEN /\ loggers' = UpdateContext(loggers, ctxLogger[r], Field(Cur(r).a1, "str", "host", r))
          /\ result' = result
          /\ CallNext(r)
     ELSE /\ loggers' = loggers
          /\ result' = [result EXCEPT ![r] = "nil"]
          /\ ReturnFrom(r, idx[r], <<>>)
  /\ UNCHANGED <<cfg, handler, initVars, ctxLogger, logOut, hashLines, respVars, input, reqHdr, rest>>

\* handler.go:85-97
RemoteAddrPre(r) ==
  /\ AtPre(r, "RemoteAddr")
  /\ loggers' = IF input[r].remoteOK
                THEN UpdateContext(loggers, ctxLogger[r], Field(Cur(r).a1, "str", "host", r))
                ELSE loggers
  /\ CallNext(r)
  /\ UNCHANGED <<cfg, handler, initVars, ctxLogger, logOut, hashLines, respVars, reqVars>>

\* handler.go:239-251
HeaderPre(r) ==
  /\ AtPre(r, "Header")
  /\ LET v == reqHdr[r][Cur(r).a1]
     IN loggers' = IF v # ""
                   THEN UpdateContext(loggers, ctxLogger[r], Field(Cur(r).a1, "str", v, r))
                   ELSE loggers
  /\ CallNext(r)
  /\ UNCHANGED <<cfg, handler, initVars, ctxLogger, logOut, hashLines, respVars, reqVars>>

\* handler.go:164-184
RequestIDPre(r) ==
  /\ AtPre(r, "RequestID")
  /\ LET fieldKey == Cur(r).a1
         headerName == Cur(r).a2
         id == ResolveID(reqHdr[r], headerName, r)
     IN /\ loggers' = IF fieldKey # ""
                      THEN UpdateContext(loggers, ctxLogger[r], Field(fieldKey, "str", id, r))
                      ELSE loggers
        /\ reqHdr' = IF headerName # ""
                     THEN [reqHdr EXCEPT ![r][headerName] = id]
                     ELSE reqHdr
  /\ CallNext(r)
  /\ UNCHANGED <<cfg, handler, initVars, ctxLogger, logOut, hashLines, respVars, input, rest, result>>

\* handler.go:273-281
DelResponseHeaderPre(r) ==
  /\ AtPre(r, "DelResponseHeader")
  /\ LET n == DelResponseHeaderHandler(w[r], nw[r], Cur(r).a1)
     IN /\ w' = [w EXCEPT ![r] = n.w]
        /\ nw' = [nw EXCEPT ![r] = n.nw]
  /\ CallNext(r)
  /\ UNCHANGED <<cfg, handler, initVars, logVars, lw, rw, writes, reqVars>>

\* handler.go:286-287
ResponseHeaderPre(r) ==
  /\ AtPre(r, "ResponseHeader")
  /\ LET n == NewRespProxyWriter(w[r], nw[r])
     IN /\ w' = [w EXCEPT ![r] = n.w]
        /\ nw' = [nw EXCEPT ![r] = n.nw]
  /\ CallNext(r)
  /\ UNCHANGED <<cfg, handler, initVars, logVars, lw, rw, writes, reqVars>>

\* handler.go:256-257
DumpResponsePre(r) ==
  /\ AtPre(r, "DumpResponse")
  /\ LET n == NewRespProxyWriter(w[r], nw[r])
     IN /\ w' = [w EXCEPT ![r] = n.w]
        /\ nw' = [nw EXCEPT ![r] = n.nw]
  /\ CallNext(r)
  /\ UNCHANGED <<cfg, handler, initVars, logVars, lw, rw, writes, reqVars>>

\* handler.go:214-235 with a bug: the stage calls the next handler without
\* dumping the request.
DumpRequestPreSkip(r) ==
  /\ AtPre(r, "DumpRequest")
  /\ CallNext(r)
  /\ UNCHANGED <<cfg, handler, initVars, logVars, respVars, reqVars>>

\* handler.go:214-235: the request is dumped, and redacted when a hash store is
\* open, before next.ServeHTTP is called.  The closure given to UpdateContext
\* does not run for the disabled logger of a context without one.
DumpRequestPre(r) ==
  /\ AtPre(r, "DumpRequest")
  /\ \E order \in KeyOrders(input[r].body) :
       LET res == DumpRequestMsg(reqHdr[r], input[r].body, order, c.hashStore)
       IN /\ loggers' = UpdateContext(loggers, ctxLogger[r],
                                      Field(Cur(r).a1, "dump", res.ret, r))
          /\ hashLines' = IF ctxLogger[r] = NoLogger THEN hashLines
                          ELSE hashLines \o [i \in DOMAIN res.lines |->
                                                [line |-> res.lines[i], by |-> r]]
  /\ CallNext(r)
  /\ UNCHANGED <<cfg, handler, initVars, ctxLogger, logOut, respVars, reqVars>>

\* ------------------------------------------------- the downstream handler

DownSetHeader(r) ==
  /\ pc[r] = "final" /\ rest[r] # <<>> /\ Head(rest[r]).op = "SetHeader"
  /\ SetBundle(r, SetHeaderVia(w[r], Bundle(r), Head(rest[r]).name, Head(rest[r]).val))
  /\ rest' = [rest EXCEPT ![r] = Tail(@)]
  /\ UNCHANGED <<cfg, pc, idx, handler, initVars, logVars, w, writes, input, reqHdr, result, trace>>

DownWriteHeader(r) ==
  /\ pc[r] = "final" /\ rest[r] # <<>> /\ Head(rest[r]).op = "WriteHeader"
  /\ SetBundle(r, WriteHeaderVia(w[r], Bundle(r), Head(rest[r]).code))
  /\ rest' = [rest EXCEPT ![r] = Tail(@)]
  /\ UNCHANGED <<cfg, pc, idx, handler, initVars, logVars, w, writes, input, reqHdr, result, trace>>

DownWrite(r) ==
  /\ pc[r] = "final" /\ rest[r] # <<>> /\ Head(rest[r]).op = "Write"
  /\ SetBundle(r, WriteVia(w[r], Bundle(r), Head(rest[r]).chunk))
  /\ writes' = [writes EXCEPT ![r] = Append(@, Head(rest[r]).chunk)]
  /\ rest' = [rest EXCEPT ![r] = Tail(@)]
  /\ UNCHANGED <<cfg, pc, idx, handler, initVars, logVars, w, input, reqHdr, result, trace>>

\* The downstream handler returns nil or an error.
DownReturn(r) ==
  /\ pc[r] = "final" /\ rest[r] = <<>>
  /\ result' = [result EXCEPT ![r] = input[r].ret]
  /\ ReturnFrom(r, Len(handler[r]) + 1, <<>>)
  /\ UNCHANGED <<cfg, handler, initVars, logVars, respVars, input, reqHdr, rest>>

\* ------------------------------------------------ post-delegation code

\* handler.go:258-268
DumpResponsePost(r) ==
  /\ AtPost(r, "DumpResponse")
  /\ loggers' = UpdateContext(loggers, ctxLogger[r],
                              Field(Cur(r).a1, "resp", DumpResponse(nw[r]), r))
  /\ result' = [result EXCEPT ![r] = DumpResponseReturn(@)]
  /\ ReturnFrom(r, idx[r], <<Ev("post", Cur(r))>>)
  /\ UNCHANGED <<cfg, handler, initVars, ctxLogger, logOut, hashLines, respVars, input, reqHdr, rest>>

\* handler.go:288-315
ResponseHeaderPost(r) ==
  /\ AtPost(r, "ResponseHeader")
  /\ LET v == nw[r].SourceHeader[Cur(r).a1]
     IN loggers' = IF v # ""
                   THEN UpdateContext(loggers, ctxLogger[r],
                                      TypedField(Cur(r).a1, Cur(r).a2, v, r))
                   ELSE loggers
  /\ result' = [result EXCEPT ![r] = ResponseHeaderReturn(@)]
  /\ ReturnFrom(r, idx[r], <<Ev("post", Cur(r))>>)
  /\ UNCHANGED <<cfg, handler, initVars, ctxLogger, logOut, hashLines, respVars, input, reqHdr, rest>>

\* handler.go:140 with a bug: f is called twice.
AccessLogTwice(out, ls, id, status, size, r) ==
  IF id = NoLogger THEN out
  ELSE out \o <<AccessEvent(ls[id], status, size, r), AccessEvent(ls[id], status, size, r)>>

\* handler.go:140, zlog.go:104-113: f(r, lw.Status(), lw.BytesWritten(), ...)
\* writes one event with the logger of the request's context; the disabled
\* logger of a context without one writes nothing.
AccessLog(out, ls, id, status, size, r) ==
  IF id = NoLogger THEN out
  ELSE Append(out, AccessEvent(ls[id], status, size, r))

\* handler.go:140-141
AccessPost(r) ==
  /\ AtPost(r, "Access")
  /\ logOut' = AccessLog(logOut, loggers, ctxLogger[r], lw[r].code, lw[r].bytes, r)
  /\ result' = [result EXCEPT ![r] = AccessReturn(@)]
  /\ ReturnFrom(r, idx[r], <<Ev("post", Cur(r))>>)
  /\ UNCHANGED <<cfg, handler, initVars, loggers, ctxLogger, hashLines, respVars, input, reqHdr, rest>>

\* The host ends the response: a response nothing was written to is sent with
\* status 200; the names deleted through the proxy are not among its headers.
HostFinish(B) ==
  IF B.rw.sent THEN B.rw
  ELSE RealSend([B.rw EXCEPT !.hdr = WithoutHeaders(@, B.nw.del)], 200)

Finish(r) ==
  /\ pc[r] = "returned"
  /\ rw' = [rw EXCEPT ![r] = HostFinish(Bundle(r))]
  /\ pc' = [pc EXCEPT ![r] = "done"]
  /\ UNCHANGED <<cfg, idx, handler, initVars, logVars, w, nw, lw, writes, reqVars, trace>>

\* ---------------------------------------------------------- specifications

\* The composed handler serves the request.
ChainStep(r) ==
  \/ Dispatch(r)
  \/ NewHandlerPre(r) \/ AccessPre(r) \/ RemoteAddrPre(r) \/ HeaderPre(r)
  \/ RequestIDPre(r) \/ DelResponseHeaderPre(r) \/ ResponseHeaderPre(r)
  \/ DumpResponsePre(r) \/ DumpRequestPre(r)
  \/ DownSetHeader(r) \/ DownWriteHeader(r) \/ DownWrite(r) \/ DownReturn(r)
  \/ DumpResponsePost(r) \/ ResponseHeaderPost(r) \/ AccessPost(r)
  \/ Finish(r)

Step(r) ==
  \/ OnceCheck(r) \/ OnceLock(r) \/ InitLogger(r) \/ InitChain(r) \/ InitSink(r)
  \/ InitDone(r) \/ OnceUnlock(r)
  \/ ChainStep(r)

\* One request at a time, over all the inputs.
Init == InitWith({1})
Next == \E r \in Procs : Start(r, RichInputs) \/ Step(r)
Spec == Init /\ [][Next]_vars

\* Concurrent requests.
InitConc == InitWith(Procs)
NextConc == \E r \in Procs : Start(r, ConcInputsOf(r)) \/ Step(r)
SpecConc == InitConc /\ [][NextConc]_vars

\* The stages of handler.go in a chain composed by a caller of the package:
\* the caller builds the chain and the logger, and calls the composed handler
\* for a request.
Enter(r, inputs) ==
  /\ pc[r] = "idle"
  /\ \E in \in inputs :
       /\ input' = [input EXCEPT ![r] = in]
       /\ reqHdr' = [reqHdr EXCEPT ![r] = in.hdr]
       /\ rest' = [rest EXCEPT ![r] = in.script]
  /\ pc' = [pc EXCEPT ![r] = "dispatch"]
  /\ UNCHANGED <<cfg, idx, handler, initVars, logVars, respVars, result, trace>>

InitStages ==
  /\ InitReq({1})
  /\ \E st \in StageChains : c = AppendAll(NewChain, st)
  /\ loggers = [i \in 0..NumProcs |-> IF i = 0 THEN BaseLogger(Instances.m1) ELSE NilLogger]
  /\ cfg = NoCfg
NextStages == \E r \in Procs : Enter(r, StageInputs) \/ ChainStep(r)
SpecStages == InitStages /\ [][NextStages]_vars

\* The host loads a Middleware: it calls Provision, then Validate, and routes
\* requests to ServeHTTP only when Validate returned nil.
procVars ==
  << pc, idx, input, handler, initVars, logVars, respVars, reqHdr, rest, result, trace >>

ProvisionStep ==
  /\ cfg.phase = "loaded"
  /\ cfg' = [cfg EXCEPT !.phase = "provisioned", !.m = Provision(cfg.m)]
  /\ UNCHANGED procVars

ValidateStep ==
  /\ cfg.phase = "provisioned"
  /\ cfg' = [cfg EXCEPT !.phase = IF Validate(cfg.m) = "nil" THEN "valid" ELSE "rejected"]
  /\ UNCHANGED procVars

ServeStep ==
  /\ cfg.phase = "valid"
  /\ cfg' = [cfg EXCEPT !.phase = "serving"]
  /\ UNCHANGED procVars

InitConfig ==
  /\ InitReq({})
  /\ c = NewChain
  /\ loggers = [i \in 0..NumProcs |-> NilLogger]
  /\ \E raw \in RawConfigs : cfg = [phase |-> "loaded", raw |-> raw, m |-> raw]
NextConfig == ProvisionStep \/ ValidateStep \/ ServeStep
SpecConfig == InitConfig /\ [][NextConfig]_vars

\* ------------------------------------------------------------------ claims

IsPrefix(s, t) == Len(s) <= Len(t) /\ \A i \in DOMAIN s : s[i] = t[i]

\* The trace of request r as <<phase, kind of stage, first argument>>.
TraceOf(r) == [i \in DOMAIN trace[r] |->
                 <<trace[r][i].ph, trace[r][i].stage.kind, trace[r][i].stage.a1>>]

\* The order C1 states: logger install, access recorder, remote-addr, three
\* header stages, request-id, header-deletion, typed-header logging,
\* response-dump, request-dump; the final handler; the post-delegation code in
\* reverse order.
C1_Expected ==
  << <<"pre", "NewHandler", "">>,
     <<"pre", "Access", "">>,
     <<"pre", "RemoteAddr", "server">>,
     <<"pre", "Header", "X-Forwarded-For">>,
     <<"pre", "Header", "User-Agent">>,
     <<"pre", "Header", "Referer">>,
     <<"pre", "RequestID", "req_id">>,
     <<"pre", "DelResponseHeader", "Cost">>,
     <<"pre", "ResponseHeader", "Cost">>,
     <<"pre", "DumpResponse", "response">>,
     <<"pre", "DumpRequest", "request">>,
     <<"final", "final", "">>,
     <<"post", "DumpResponse", "response">>,
     <<"post", "ResponseHeader", "Cost">>,
     <<"post", "Access", "">> >>

\* C1: for every request the pre-delegation code of the stages runs in
\* registration order, then the final handler, then the post-delegation code in
\* reverse registration order: at every moment the code that has run is a
\* prefix of that nested order, and all of it once the chain has returned.
C1_NestedOrder ==
  \A r \in Procs :
    /\ IsPrefix(TraceOf(r), C1_Expected)
    /\ pc[r] \in {"returned", "done"} => TraceOf(r) = C1_Expected

\* A request has gone through the whole chain and back.
C1_Witness == \E r \in Procs : pc[r] = "done" /\ TraceOf(r) = C1_Expected

\* The records of the log that request r emitted.
RecordsBy(r) == {i \in DOMAIN logOut : logOut[i].by = r}

\* C2: a field added to one request's logger context never shows in a record
\* emitted for another request, nor in another request's logger, and the base
\* logger keeps the two fields it was built with.
C2_Isolation ==
  /\ \A i \in DOMAIN logOut : \A j \in DOMAIN logOut[i].context :
       logOut[i].context[j].by \in {0, logOut[i].by}
  /\ \A r \in Procs : ctxLogger[r] # NoLogger =>
       \A j \in DOMAIN loggers[ctxLogger[r]].context :
         loggers[ctxLogger[r]].context[j].by \in {0, r}
  /\ \A j \in DOMAIN loggers[0].context : loggers[0].context[j].by = 0
  /\ onceDone => Len(loggers[0].context) = 2

\* One request's record is written, with fields of its own, while another
\* request that has added fields of its own is still inside the chain.
C2_Witness ==
  \E r1, r2 \in Procs :
    /\ r1 # r2
    /\ \E i \in RecordsBy(r1) : \E j \in DOMAIN logOut[i].context :
         logOut[i].context[j].by = r1
    /\ pc[r2] \in {"pre", "final", "post"}
    /\ ctxLogger[r2] # NoLogger
    /\ \E j \in DOMAIN loggers[ctxLogger[r2]].context :
         loggers[ctxLogger[r2]].context[j].by = r2

\* C5: the headers delivered to the client never contain Cost, whatever the
\* downstream handler does.
C5_NoCostToClient == \A r \in Procs : rw[r].sent => rw[r].clientHdr["Cost"] = ""

\* The downstream handler had set Cost when the response was flushed.
C5_Witness ==
  \E r \in Procs : rw[r].sent /\ nw[r].SourceHeader["Cost"] # "" /\ rw[r].body # <<>>

\* C6: after every Write of the downstream handler the captured body is the
\* concatenation of the slices written so far, in call order, and equals the
\* bytes the real writer received.
C6_CaptureFaithful ==
  \A r \in Procs : nw[r].Body = Concat(writes[r]) /\ rw[r].body = nw[r].Body

\* Two different non-empty slices have been written.
C6_Witness ==
  \E r \in Procs :
    /\ Len(writes[r]) >= 2
    /\ writes[r][1] # <<>> /\ writes[r][2] # <<>> /\ writes[r][1] # writes[r][2]
    /\ nw[r].Body = writes[r][1] \o writes[r][2]

\* C7: every request emits exactly one access event, and only after the
\* downstream handler has returned: never more than one, none before the
\* return, one once the chain has returned to the host.
C7_OneAccessEvent ==
  \A r \in Procs :
    /\ Cardinality(RecordsBy(r)) <= 1
    /\ RecordsBy(r) # {} => result[r] # "none"
    /\ pc[r] \in {"returned", "done"} => Cardinality(RecordsBy(r)) = 1

\* A request whose downstream handler returned an error has its one event.
C7_Witness ==
  \E r \in Procs : pc[r] = "done" /\ result[r] = "err" /\ Cardinality(RecordsBy(r)) = 1

\* The fields with this key in the logger of request r.
FieldsOf(r, key) ==
  IF ctxLogger[r] = NoLogger THEN <<>>
  ELSE SelectSeq(loggers[ctxLogger[r]].context, LAMBDA f : f.key = key)

\* Request r's form body has been dumped while a hash store was open.
Redacted(r) ==
  /\ c.hashStore # "nil"
  /\ input[r].body.kind = "form"
  /\ Len(FieldsOf(r, "request")) = 1

\* C3 as stated: with a redaction sink, a request that splits into head and
\* body, and a body that parses as a form, every form field whose value is
\* longer than 1000 characters appears in the logged dump as
\* md5-<field>=<hash of the value>, and the raw value does not appear.
C3_Claim ==
  \A r \in Procs : Redacted(r) =>
    LET dump == FieldsOf(r, "request")[1].val
        body == input[r].body.pairs
    IN \A i \in DOMAIN body :
         body[i][2].len > Threshold =>
           /\ \E j \in DOMAIN dump.pairs :
                dump.pairs[j] = <<Md5Key(body[i][1]), MD5(body[i][2])>>
           /\ \A j \in DOMAIN dump.pairs : dump.pairs[j][2] # body[i][2]

\* The lines of the hash store request r wrote for this field and value.
LinesBy(r, k, v) ==
  {i \in DOMAIN hashLines :
     /\ hashLines[i].by = r
     /\ hashLines[i].line.field = k
     /\ hashLines[i].line.content = v}

\* C4 as stated: within one request the sink receives exactly one entry
\* {field, md5, content} for each form field whose value exceeds 1000
\* characters and none for a field whose value is 1000 characters or shorter.
C4_Claim ==
  \A r \in Procs : Redacted(r) =>
    LET body == input[r].body.pairs
    IN \A i \in DOMAIN body :
         IF body[i][2].len > Threshold
         THEN /\ Cardinality(LinesBy(r, body[i][1], body[i][2])) = 1
              /\ \A l \in LinesBy(r, body[i][1], body[i][2]) :
                   hashLines[l].line.md5 = MD5(body[i][2])
         ELSE LinesBy(r, body[i][1], body[i][2]) = {}

\* C8 as stated: every request emits a separate record for each log-producing
\* stage: at least an access record, a request-dump record and a response-dump
\* record.
C8_Claim == \A r \in Procs : pc[r] = "done" => Cardinality(RecordsBy(r)) >= 3

\* The number of fields with this key in a record.
CountKey(rec, key) == Len(SelectSeq(rec.context, LAMBDA f : f.key = key))

\* C8, amended: a request that has gone through the chain has emitted exactly
\* one record, the access record, and that record carries exactly one req_id
\* field, one request (request-dump) field and one response (response-dump)
\* field.
C8_OneRecordAllFields ==
  \A r \in Procs : pc[r] \in {"returned", "done"} =>
    /\ Cardinality(RecordsBy(r)) = 1
    /\ \A i \in RecordsBy(r) :
         /\ CountKey(logOut[i], "req_id") = 1
         /\ CountKey(logOut[i], "request") = 1
         /\ CountKey(logOut[i], "response") = 1

\* A finished request whose single record carries a generated request id.
C8_Witness ==
  \E r \in Procs :
    /\ pc[r] = "done"
    /\ \E i \in RecordsBy(r) : \E j \in DOMAIN logOut[i].context :
         /\ logOut[i].context[j].key = "req_id"
         /\ logOut[i].context[j].val = "xid-" \o ToString(r)
         /\ CountKey(logOut[i], "response") = 1

\* C9 as stated: the resolved request id is set under the header name on the
\* response headers sent to the client, and equals the id of the log field.
C9_Claim ==
  \A r \in Procs : rw[r].sent =>
    /\ Len(FieldsOf(r, "req_id")) = 1
    /\ rw[r].clientHdr["Request-Id"] = FieldsOf(r, "req_id")[1].val

\* The positions of a request that is past once.Do.
PastOnce == {"dispatch", "pre", "final", "post", "returned", "done"}

\* The positions inside the function given to once.Do.
InInit == {"init_logger", "init_chain", "init_sink", "init_done"}

\* C10: the chain is built at most once, and a request is dispatched through
\* it only after the construction, the assignment of the hash store included,
\* has completed: no request is past once.Do while another is inside its
\* function, and the handler a request runs is the complete chain.
C10_BuiltOnce ==
  /\ initCount <= 1
  /\ \A r \in Procs : pc[r] \in PastOnce =>
       /\ onceDone /\ initCount = 1
       /\ \A q \in Procs : pc[q] \notin InInit
       /\ Then(c) = Then(BuildChain)
       /\ pc[r] # "dispatch" => handler[r] = Then(BuildChain)

\* Two first requests raced: one built the chain, the other found the mutex
\* taken, and both are served by the one chain.
C10_Witness ==
  \E r1, r2 \in Procs :
    /\ r1 # r2
    /\ pc[r1] \in {"pre", "final", "post"}
    /\ pc[r2] = "once_unlock" /\ onceM = r2
    /\ initCount = 1

\* The typed-header stages of the handler that serves request r.
TypedStages(r) == SelectSeq(handler[r], LAMBDA st : st.kind = "ResponseHeader")

\* The value v read as the kind a typed-header stage is configured with.
ParseAs(kind, v) ==
  CASE kind = "bool" -> ParseBool(v)
    [] kind = "int" -> ParseInt(v)
    [] kind = "uint" -> ParseUint(v)
    [] kind = "float" -> ParseFloat(v)
    [] kind = "str" -> [ok |-> TRUE, val |-> v]

\* C11: once the chain has returned, a request whose named response header was
\* non-empty has exactly one field under the header name in its logger: the
\* value in the configured kind (bool, int, uint, float, str) when it parses
\* as that kind, the raw string otherwise; the field is never left out, and the
\* result of the request is the one the downstream handler returned.
C11_TypedField ==
  \A r \in Procs :
    (pc[r] \in {"returned", "done"} /\ ctxLogger[r] # NoLogger /\ TypedStages(r) # <<>>) =>
      LET name == TypedStages(r)[1].a1
          kind == TypedStages(r)[1].a2
          v == nw[r].SourceHeader[name]
          fs == FieldsOf(r, name)
      IN /\ result[r] = input[r].ret
         /\ IF v = "" THEN fs = <<>>
            ELSE /\ Len(fs) = 1
                 /\ IF ParseAs(kind, v).ok
                    THEN fs[1].typ = kind /\ fs[1].val = ParseAs(kind, v).val
                    ELSE fs[1].typ = "str" /\ fs[1].val = v

\* A stage configured as int has read a header that is not an integer, while
\* the downstream handler returned an error: the raw string is the field.
C11_Witness ==
  \E r \in Procs :
    /\ pc[r] = "done" /\ result[r] = "err"
    /\ TypedStages(r) # <<>> /\ TypedStages(r)[1].a2 = "int"
    /\ nw[r].SourceHeader["Cost"] = "3.14"
    /\ Len(FieldsOf(r, "Cost")) = 1
    /\ FieldsOf(r, "Cost")[1].typ = "str" /\ FieldsOf(r, "Cost")[1].val = "3.14"

\* The post-delegation code of a stage of this kind has run for request r.
PostRan(r, kind) == \E i \in DOMAIN trace[r] : trace[r][i].ph = "post" /\ trace[r][i].stage.kind = kind

\* C12: the composed handler returns to the host what the downstream handler
\* returned; when that is an error the post-delegation code of the response
\* dump, typed-header and access stages has still run: the one access event
\* carries the status and size the writer recorded, the response field with the
\* captured status and body, and the Cost field when the header was flushed.
C12_ErrorPropagated ==
  \A r \in Procs : pc[r] \in {"returned", "done"} =>
    /\ result[r] = input[r].ret
    /\ input[r].ret = "err" =>
         /\ PostRan(r, "DumpResponse") /\ PostRan(r, "ResponseHeader") /\ PostRan(r, "Access")
         /\ \E i \in RecordsBy(r) :
              /\ logOut[i].status = lw[r].code
              /\ logOut[i].size = Len(Concat(writes[r]))
              /\ \E j \in DOMAIN logOut[i].context :
                   /\ logOut[i].context[j].key = "response"
                   /\ logOut[i].context[j].val.code = nw[r].Code
                   /\ logOut[i].context[j].val.body = Concat(writes[r])
              /\ nw[r].SourceHeader["Cost"] # "" => CountKey(logOut[i], "Cost") = 1

\* The downstream handler set Cost, wrote a body and returned an error; the
\* host got the error and the record was written.
C12_Witness ==
  \E r \in Procs :
    /\ pc[r] = "done" /\ input[r].ret = "err" /\ result[r] = "err"
    /\ writes[r] # <<>> /\ nw[r].SourceHeader["Cost"] # ""
    /\ \E i \in RecordsBy(r) : CountKey(logOut[i], "Cost") = 1 /\ logOut[i].size > 0

\* Request r's body has been dumped while a hash store was open, and the dump
\* does not split into head and body, or the body does not parse as a form.
NotAForm(r) ==
  /\ c.hashStore # "nil"
  /\ input[r].body.kind \in {"blankline", "badform"}
  /\ Len(FieldsOf(r, "request")) = 1

\* The lines of the hash store request r wrote.
LinesOf(r) == {i \in DOMAIN hashLines : hashLines[i].by = r}

\* C13: when the serialized request does not split into exactly two parts at a
\* blank line, or its body does not parse as a form, the logged dump is the
\* serialized request itself and the request writes nothing to the hash store.
C13_FailOpen ==
  \A r \in Procs : NotAForm(r) =>
    /\ FieldsOf(r, "request")[1].val = DumpRequest(reqHdr[r], input[r].body)
    /\ LinesOf(r) = {}

\* A body that does not parse holds, before the pair that is rejected, a value
\* above the threshold: it is logged as it came.
C13_Witness ==
  \E r \in Procs :
    /\ NotAForm(r) /\ input[r].body.kind = "badform"
    /\ \E i \in DOMAIN input[r].body.pairs : input[r].body.pairs[i][2].len > Threshold
    /\ FieldsOf(r, "request")[1].val.pairs = input[r].body.pairs

\* The phases of a Middleware on which Provision has run.
Provisioned == {"provisioned", "valid", "rejected", "serving"}

\* C14: Provision turns an unset split_by into "day" and leaves a set one as
\* it is; Validate then returns nil exactly when split_by is "day" or "hour"
\* and an error for every other value; a Middleware that serves requests has
\* split_by "day" or "hour".
C14_ValidateSplitBy ==
  /\ cfg.phase \in Provisioned =>
       cfg.m.SplitBy = IF cfg.raw.SplitBy = "" THEN "day" ELSE cfg.raw.SplitBy
  /\ cfg.phase = "valid" => cfg.m.SplitBy \in {"day", "hour"}
  /\ cfg.phase = "rejected" => cfg.m.SplitBy \notin {"day", "hour"}
  /\ cfg.phase = "serving" => cfg.m.SplitBy \in {"day", "hour"}

\* A Middleware configured without split_by serves requests, split by day.
C14_Witness == cfg.phase = "serving" /\ cfg.raw.SplitBy = "" /\ cfg.m.SplitBy = "day"

\* The once function has run for an instance whose hash_dir is empty or cannot
\* be opened.
SinkUnavailable ==
  /\ initBy # ""
  /\ Instances[initBy].HashDir = "" \/ Instances[initBy].HashDir \notin Openable

\* C15: when the hash store cannot be opened, or hash_dir is empty, c.hashStore
\* stays nil from then on; nothing is ever written to the hash store; every
\* request's dump is the serialized request with its values in full; and a
\* request that has returned has its record and the downstream handler's result.
C15_NoSinkNoRedaction ==
  SinkUnavailable =>
    /\ c.hashStore = "nil"
    /\ hashLines = <<>>
    /\ \A r \in Procs :
         /\ Len(FieldsOf(r, "request")) = 1 =>
              FieldsOf(r, "request")[1].val = DumpRequest(reqHdr[r], input[r].body)
         /\ pc[r] \in {"returned", "done"} =>
              /\ result[r] = input[r].ret
              /\ \E i \in RecordsBy(r) : CountKey(logOut[i], "request") = 1

\* The once function ran for the instance whose hash_dir cannot be opened; a
\* request of the instance with a hash_dir that can, holding a value above
\* the threshold, is done and its value was logged in full.
C15_Witness ==
  /\ SinkUnavailable /\ Instances[initBy].HashDir # ""
  /\ \E r \in Procs :
       /\ pc[r] = "done" /\ input[r].inst = "m1"
       /\ \E i \in RecordsBy(r) : \E j \in DOMAIN logOut[i].context :
            /\ logOut[i].context[j].key = "request"
            /\ \E k \in DOMAIN logOut[i].context[j].val.pairs :
                 logOut[i].context[j].val.pairs[k][2].len > Threshold

\* The downstream handler has been entered for request r.
FinalEntered(r) == \E i \in DOMAIN trace[r] : trace[r][i].ph = "final"

\* C16 as stated: the request is serialized, redacted and written to the hash
\* store only after the downstream handler has returned: while it has not
\* returned there is no request field and no line of the request in the store.
C16_Claim ==
  \A r \in Procs : result[r] = "none" =>
    /\ FieldsOf(r, "request") = <<>>
    /\ LinesOf(r) = {}

\* C16, amended: the request-dump stage serializes the request, redacts it and
\* writes to the hash store before it calls the next handler: when the
\* downstream handler is entered the request field is in the logger; lines of
\* the request are in the hash store only together with the field; and the
\* field and the lines stay those of that one dump, whatever the downstream
\* handler does and returns.
C16_DumpBeforeDelegation ==
  \A r \in Procs :
    /\ FinalEntered(r) => Len(FieldsOf(r, "request")) = 1
    /\ LinesOf(r) # {} => Len(FieldsOf(r, "request")) = 1
    /\ Len(FieldsOf(r, "request")) = 1 =>
         \E order \in KeyOrders(input[r].body) :
           LET res == DumpRequestMsg(reqHdr[r], input[r].body, order, c.hashStore)
           IN /\ FieldsOf(r, "request")[1].val = res.ret
              /\ Cardinality(LinesOf(r)) = Len(res.lines)

\* The downstream handler has been entered and has not returned; the redacted
\* dump is in the logger and its line is in the hash store.
C16_Witness ==
  \E r \in Procs :
    /\ pc[r] = "final" /\ result[r] = "none"
    /\ Len(FieldsOf(r, "request")) = 1
    /\ LinesOf(r) # {}

\* C17 as stated: the access recorder's post-delegation code has run before
\* the post-delegation code of the typed-header and response-dump stages has
\* completed: once both have completed, the access event has been emitted.
C17_Claim ==
  \A r \in Procs :
    (PostRan(r, "ResponseHeader") /\ PostRan(r, "DumpResponse")) => RecordsBy(r) # {}

\* C17, amended: the access recorder's post-delegation code runs after the
\* post-delegation code of the response-dump stage and of the typed-header
\* stage has completed, in this order; the access event is emitted last and
\* carries the fields they added.
C17_AccessPostLast ==
  \A r \in Procs :
    /\ PostRan(r, "ResponseHeader") => PostRan(r, "DumpResponse")
    /\ PostRan(r, "Access") => PostRan(r, "ResponseHeader")
    /\ RecordsBy(r) # {} =>
         /\ PostRan(r, "DumpResponse") /\ PostRan(r, "ResponseHeader")
         /\ \A i \in RecordsBy(r) :
              /\ CountKey(logOut[i], "response") = 1
              /\ nw[r].SourceHeader["Cost"] # "" => CountKey(logOut[i], "Cost") = 1

\* The post-delegation code of the response-dump and typed-header stages has
\* completed and the access event has not been emitted yet.
C17_Witness ==
  \E r \in Procs :
    /\ AtPost(r, "Access")
    /\ PostRan(r, "DumpResponse") /\ PostRan(r, "ResponseHeader")
    /\ nw[r].SourceHeader["Cost"] # ""
    /\ RecordsBy(r) = {}

\* C18 as stated: every key=value occurrence of a form body whose value is at
\* most 1000 characters is in the logged dump the redactor produced, with its
\* key and its original value, whatever other fields the body holds.
C18_Claim ==
  \A r \in Procs : Redacted(r) =>
    LET dump == FieldsOf(r, "request")[1].val
        body == input[r].body.pairs
    IN \A i \in DOMAIN body :
         body[i][2].len <= Threshold =>
           \E j \in DOMAIN dump.pairs : dump.pairs[j] = body[i]

\* The calls of next.ServeHTTP the stages have made for request r, and the
\* entries of the final handler.
NextCalls(r) == SelectSeq(trace[r], LAMBDA e : e.ph = "pre")
FinalRuns(r) == SelectSeq(trace[r], LAMBDA e : e.ph = "final")

\* C19: every stage calls the next handler exactly once per request: the calls
\* made so far are those of the stages in order, each once; the final handler
\* is entered at most once, and only when every stage has called its next; a
\* request whose chain is unwinding or has returned went through the final
\* handler exactly once.  This holds with and without a logger in the request
\* context and for every remote address, header and request id.
C19_NextOnce ==
  \A r \in Procs :
    /\ IsPrefix(NextCalls(r), [i \in DOMAIN handler[r] |-> Ev("pre", handler[r][i])])
    /\ Len(FinalRuns(r)) <= 1
    /\ Len(FinalRuns(r)) = 1 => Len(NextCalls(r)) = Len(handler[r])
    /\ pc[r] \in {"post", "returned", "done"} =>
         Len(FinalRuns(r)) = 1 /\ Len(NextCalls(r)) = Len(handler[r])

\* A request without a logger in its context, with a remote address and a
\* request id that do not parse and no forwarded-for header, has gone through
\* every stage and the final handler once.
C19_Witness ==
  \E r \in Procs :
    /\ pc[r] = "done" /\ ctxLogger[r] = NoLogger
    /\ ~input[r].remoteOK /\ input[r].hdr["Request-Id"] = "bad"
    /\ input[r].hdr["X-Forwarded-For"] = ""
    /\ Len(handler[r]) = 10 /\ Len(NextCalls(r)) = 10 /\ Len(FinalRuns(r)) = 1

\* The base logger and the hash store the once function builds for the
\* instance that first ran it.
FirstLogger == BaseLogger(Instances[initBy])
FirstStore == OpenHashStore(BuildChain, Instances[initBy]).hashStore

\* C20: the chain, the base logger and the hash store are those of the
\* instance whose request first ran the once function, for the requests of
\* every instance: a request past once.Do finds them so; every record is
\* written to the first instance's log output; every request's dump is
\* redacted, or not, with the first instance's hash store, and lines reach the
\* hash store only when the first instance's hash_dir could be opened.
C20_FirstConfigForAll ==
  /\ \A r \in Procs : pc[r] \in PastOnce =>
       /\ initBy # ""
       /\ loggers[0] = FirstLogger
       /\ c.hashStore = FirstStore
       /\ Len(FieldsOf(r, "request")) = 1 =>
            \E order \in KeyOrders(input[r].body) :
              LET res == DumpRequestMsg(reqHdr[r], input[r].body, order, FirstStore)
              IN /\ FieldsOf(r, "request")[1].val = res.ret
                 /\ Cardinality(LinesOf(r)) = Len(res.lines)
  /\ \A i \in DOMAIN logOut : logOut[i].out = FirstLogger.out
  /\ hashLines # <<>> => FirstStore # "nil"

\* A request of the instance whose log_dir and hash_dir cannot be opened is
\* done: the once function had run for another instance, so its record went to
\* that instance's log and its long value to that instance's hash store.
C20_Witness ==
  \E r \in Procs :
    /\ pc[r] = "done" /\ input[r].inst = "m3" /\ initBy = "m1"
    /\ \E i \in RecordsBy(r) : logOut[i].out = FileStore("./zerolog", "day")
    /\ LinesOf(r) # {}

====
